---------------------------- MODULE Spec2Model ----------------------------
(***************************************************************************)
(* A model of the nixpkgs-review result pipeline:                          *)
(*   nix.py        _nix_eval_filter (dedup by output path), nix_build_dry  *)
(*                 (dry-run plan parser), nix_build (diagnostic            *)
(*                 correlation)                                            *)
(*   hydracheck.py fetch_hydra_build_status, _fetch_data,                  *)
(*                 _parse_build_html                                       *)
(*   report.py     Report.__init__, Report.get_hydra_build_status          *)
(* Each component has its own specification over the shared variables; the *)
(* variables of the other components stay at their idle values.            *)
(***************************************************************************)
EXTENDS Integers, Sequences, FiniteSets, TLC

VARIABLES
    \* ---- _nix_eval_filter (nix.py:105-143)
    evalJson,        \* the evaluation result: sequence of [name, props], in dict order
    evalIdx,         \* number of items of evalJson already folded
    attr_by_path,    \* dict path -> Attr, as the sequence of its values in key order
    brokenAttrs,     \* the list `broken` (Attrs without an output path)
    resolved,        \* the returned list
    resPc,           \* "idle" | "start" | "run" | "loads" | "loop" | "done" | "raising"
                     \*   | "returned" | "raised"
    \* ---- nix_eval (nix.py:146-179)
    attr_json,       \* the NamedTemporaryFile of the requested names is on disk
    delete,          \* the local flag `delete`
    \* ---- nix_build_dry (nix.py:200-222)
    planLines,       \* proc2.stderr.splitlines(): sequence of lines (word sequences)
    planIdx,         \* number of lines already parsed
    cur,             \* which list `cur` is bound to: "unbound" | "to_fetch" | "to_build" | "ignore"
    to_fetch,
    to_build,
    ignore,
    dryPc,           \* "idle" | "loop" | "done" | "raised"
    \* ---- nix_build (nix.py:225-307)
    attrs,           \* the Attr list of nix_build
    stderr,          \* diagnostic lines of the build
    scanIdx,         \* number of stderr lines already scanned
    has_failed_dependencies,
    has_timeout,     \* dict drv -> line, as a sequence of [key, line]
    attrsBefore,     \* attrs as they entered the diagnostic correlation
    buildPc,         \* "idle" | "filter" | "scan" | "timeouts" | "deps" | "done" | "returned_early"
    \* ---- Report.__init__ / fetch_hydra_build_status
    rAttrs,          \* the Attr list handed to Report
    storeValid,      \* output paths for which nix-store --verify-path succeeds
    responses,       \* name -> the CI provider's answer for that name
    buckets,         \* the Report's bucket lists
    failed,          \* the local list `failed`
    submitted,       \* number of futures submitted to the executor
    running,         \* futures (indices into failed) executing _fetch_data on a worker
    finished,        \* futures that completed
    collected,       \* futures as_completed has yielded
    response_bodies, \* hydracheck.py:44
    reports,         \* parsed_responses, a dict as a sequence of [name, report]
    report_md,       \* the sections written to report.md (report.py:150-182)
    repPc            \* "idle" | "classify" | "fetch" | "parse" | "partition" | "done" | "raised"

resolverVars == <<evalJson, evalIdx, attr_by_path, brokenAttrs, resolved, resPc,
                  attr_json, delete>>
dryVars == <<planLines, planIdx, cur, to_fetch, to_build, ignore, dryPc>>
buildVars == <<attrs, stderr, scanIdx, has_failed_dependencies, has_timeout,
               attrsBefore, buildPc>>
reportVars == <<rAttrs, storeValid, responses, buckets, failed, submitted, running, finished, collected,
                response_bodies, reports, repPc, report_md>>
vars == <<resolverVars, dryVars, buildVars, reportVars>>

None == "None"

\* build_err_msg = None; a message is <<"line", l>> or <<"stderr">>
NoMsg == <<>>

\* ------------------------------------------------------------------------
\* Generic helpers
\* ------------------------------------------------------------------------
Range(s) == {s[i] : i \in 1..Len(s)}

RECURSIVE SeqsUpTo(_, _)
\* all sequences over S of length at most n
SeqsUpTo(S, n) ==
    IF n = 0 THEN {<<>>}
    ELSE LET shorter == SeqsUpTo(S, n - 1)
         IN  shorter \cup {Append(s, x) : s \in {t \in shorter : Len(t) = n - 1}, x \in S}

Injective(s) == \A i, j \in 1..Len(s) : s[i] = s[j] => i = j

\* ------------------------------------------------------------------------
\* Attr (nix.py:20-35)
\* ------------------------------------------------------------------------
\* The dataclass with its defaults; position, log_url and check_report are
\* carried by no operation modelled here and are left out.
Attr(name, exists, broken, blacklisted, skipped, path, drv_path) ==
    [name |-> name, exists |-> exists, broken |-> broken,
     blacklisted |-> blacklisted, skipped |-> skipped,
     path |-> path, drv_path |-> drv_path,
     aliases |-> <<>>, timed_out |-> FALSE, build_err_msg |-> NoMsg,
     path_verified |-> None]

\* ------------------------------------------------------------------------
\* Idle values of each component
\* ------------------------------------------------------------------------
ResolverIdle ==
    /\ evalJson = <<>> /\ evalIdx = 0 /\ attr_by_path = <<>>
    /\ brokenAttrs = <<>> /\ resolved = <<>> /\ resPc = "idle"
    /\ attr_json = FALSE /\ delete = TRUE

DryIdle ==
    /\ planLines = <<>> /\ planIdx = 0 /\ cur = "unbound"
    /\ to_fetch = <<>> /\ to_build = <<>> /\ ignore = <<>> /\ dryPc = "idle"

BuildIdle ==
    /\ attrs = <<>> /\ stderr = <<>> /\ scanIdx = 0
    /\ has_failed_dependencies = <<>> /\ has_timeout = <<>>
    /\ attrsBefore = <<>> /\ buildPc = "idle"

EmptyBuckets ==
    [broken |-> <<>>, blacklisted |-> <<>>, skipped |-> <<>>, timed_out |-> <<>>,
     non_existant |-> <<>>, tests |-> <<>>, failed_new |-> <<>>,
     failed_existing |-> <<>>, built |-> <<>>]

ReportIdle ==
    /\ rAttrs = <<>> /\ storeValid = {} /\ responses = <<>> /\ buckets = EmptyBuckets
    /\ failed = <<>> /\ submitted = 0 /\ running = {} /\ finished = {} /\ collected = {}
    /\ response_bodies = <<>> /\ reports = <<>> /\ repPc = "idle"
    /\ report_md = <<>>

\* ========================================================================
\* Target Resolver: _nix_eval_filter
\* ========================================================================
MaxNames == 3

\* the fixed denylist
blacklist ==
    {"tests.nixos-functions.nixos-test", "tests.nixos-functions.nixosTest-test",
     "tests.writers", "appimage-run-tests"}

\* requested names: two of equal length, a shorter one, a denylisted one
EvalNames == {"aaa", "aab", "ab", "tests.writers"}

\* what evalAttrs.nix reports for one name
EvalProps ==
    {[exists |-> TRUE, broken |-> FALSE, path |-> "/nix/store/p1", drvPath |-> "/nix/store/d1.drv"],
     [exists |-> TRUE, broken |-> FALSE, path |-> "/nix/store/p2", drvPath |-> "/nix/store/d2.drv"],
     [exists |-> TRUE, broken |-> TRUE, path |-> None, drvPath |-> None],
     [exists |-> FALSE, broken |-> FALSE, path |-> None, drvPath |-> None]}

\* json.loads(nix_eval.stdout): a dict, so names are distinct; items() order
EvalJsons ==
    {j \in SeqsUpTo([name : EvalNames, props : EvalProps], MaxNames) :
        Injective([i \in 1..Len(j) |-> j[i].name])}

\* attr_by_path.get(path, None): the index of the entry, 0 for None
DictIndex(dict, path) ==
    IF \E i \in 1..Len(dict) : dict[i].path = path
    THEN CHOOSE i \in 1..Len(dict) : dict[i].path = path
    ELSE 0

\* mutant of ShorterName: a tie replaces the survivor too
ShorterNameOrEqual(other, attr) == Len(other.name) >= Len(attr.name)

\* nix.py:136  len(other.name) > len(attr.name)
ShorterName(other, attr) == Len(other.name) > Len(attr.name)

\* nix.py:121-130  the Attr built from one item
EvalAttr(item) ==
    Attr(item.name, item.props.exists, item.props.broken,
         item.name \in blacklist, FALSE, item.props.path, item.props.drvPath)

\* nix.py:131-140  the dedup step on attr_by_path
DedupInsert(dict, attr) ==
    LET k == DictIndex(dict, attr.path)
    IN  IF k = 0 THEN Append(dict, attr)
        ELSE IF ShorterName(dict[k], attr)
             THEN [dict EXCEPT ![k] =
                     [attr EXCEPT !.aliases = Append(attr.aliases, dict[k].name)]]
             ELSE [dict EXCEPT ![k].aliases = Append(@, attr.name)]

\* one iteration of the loop nix.py:120-142
EvalStep ==
    /\ resPc = "loop"
    /\ evalIdx < Len(evalJson)
    /\ LET attr == EvalAttr(evalJson[evalIdx + 1])
       IN  IF attr.path # None
           THEN /\ attr_by_path' = DedupInsert(attr_by_path, attr)
                /\ UNCHANGED brokenAttrs
           ELSE /\ brokenAttrs' = Append(brokenAttrs, attr)
                /\ UNCHANGED attr_by_path
    /\ evalIdx' = evalIdx + 1
    /\ UNCHANGED <<evalJson, resolved, resPc, attr_json, delete>>
    /\ UNCHANGED <<dryVars, buildVars, reportVars>>

\* nix.py:143  return list(attr_by_path.values()) + broken
EvalReturn ==
    /\ resPc = "loop"
    /\ evalIdx = Len(evalJson)
    /\ resolved' = attr_by_path \o brokenAttrs
    /\ resPc' = "done"
    /\ UNCHANGED <<evalJson, evalIdx, attr_by_path, brokenAttrs, attr_json, delete>>
    /\ UNCHANGED <<dryVars, buildVars, reportVars>>

ResolverInit ==
    /\ evalJson \in EvalJsons
    /\ evalIdx = 0 /\ attr_by_path = <<>> /\ brokenAttrs = <<>>
    /\ resolved = <<>> /\ resPc = "loop"
    /\ attr_json = TRUE /\ delete = TRUE
    /\ DryIdle /\ BuildIdle /\ ReportIdle

ResolverNext == EvalStep \/ EvalReturn

ResolverSpec == ResolverInit /\ [][ResolverNext]_vars

\* ---- claims on the Resolver
\* indices of evalJson whose item maps to output path p
NamesOf(p) == {i \in 1..Len(evalJson) : evalJson[i].props.path = p}

EvalPaths == {evalJson[i].props.path : i \in 1..Len(evalJson)} \ {None}

\* the first encountered among the shortest names mapping to p
ShortestFirst(p) ==
    CHOOSE i \in NamesOf(p) :
        \A j \in NamesOf(p) :
            \/ Len(evalJson[j].name) > Len(evalJson[i].name)
            \/ (Len(evalJson[j].name) = Len(evalJson[i].name) /\ j >= i)

Survivors(p) == {k \in 1..Len(resolved) : resolved[k].path = p}

\* C4: after the dedup reduction every distinct non-null output path has
\* exactly one surviving Attr, and it carries the shortest name mapping to
\* that path, the first encountered among names of equal shortest length.
C4_DedupShortestFirst ==
    resPc = "done" =>
        \A p \in EvalPaths :
            /\ Cardinality(Survivors(p)) = 1
            /\ \A k \in Survivors(p) :
                   resolved[k].name = evalJson[ShortestFirst(p)].name

\* a path shared by three names: a longer one first, then two tied shortest
C4_Witness ==
    /\ resPc = "done"
    /\ \E p \in EvalPaths :
          /\ NamesOf(p) = {1, 2, 3}
          /\ ShortestFirst(p) = 2
          /\ Len(evalJson[1].name) > Len(evalJson[2].name)
          /\ Len(evalJson[3].name) = Len(evalJson[2].name)

\* C5: after the dedup reduction every name mapping to a shared output path,
\* other than the survivor's, is among the survivor's aliases.
C5_NoAliasLost ==
    resPc = "done" =>
        \A p \in EvalPaths : \A k \in Survivors(p) : \A i \in NamesOf(p) :
            evalJson[i].name # resolved[k].name =>
                evalJson[i].name \in Range(resolved[k].aliases)

\* ========================================================================
\* nix_eval around the filter: the file of the requested names
\* ========================================================================
\* nix.py:147-152  the names are written to a temporary file kept on close
WriteInput ==
    /\ resPc = "start"
    /\ attr_json' = TRUE
    /\ delete' = TRUE
    /\ resPc' = "run"
    /\ UNCHANGED <<evalJson, evalIdx, attr_by_path, brokenAttrs, resolved>>
    /\ UNCHANGED <<dryVars, buildVars, reportVars>>

\* nix.py:164-173  subprocess.run(check=True): a non-zero exit raises
\* CalledProcessError, the handler clears `delete` and re-raises
RunEval ==
    /\ resPc = "run"
    /\ \E exitOk \in BOOLEAN :
          IF exitOk
          THEN /\ resPc' = "loads"
               /\ UNCHANGED delete
          ELSE /\ resPc' = "raising"
               /\ delete' = FALSE
    /\ UNCHANGED <<evalJson, evalIdx, attr_by_path, brokenAttrs, resolved, attr_json>>
    /\ UNCHANGED <<dryVars, buildVars, reportVars>>

\* nix.py:175  json.loads(nix_eval.stdout): raises on malformed output,
\* otherwise _nix_eval_filter starts on the parsed dict
LoadJson ==
    /\ resPc = "loads"
    /\ \E wellFormed \in BOOLEAN :
          resPc' = IF wellFormed THEN "loop" ELSE "raising"
    /\ UNCHANGED <<evalJson, evalIdx, attr_by_path, brokenAttrs, resolved, attr_json,
                   delete>>
    /\ UNCHANGED <<dryVars, buildVars, reportVars>>

\* nix.py:176-179  finally: close, unlink if `delete`; then the return or
\* the exception reaches the caller
Finally ==
    /\ resPc \in {"done", "raising"}
    /\ attr_json' = IF delete THEN FALSE ELSE attr_json
    /\ resPc' = IF resPc = "done" THEN "returned" ELSE "raised"
    /\ UNCHANGED <<evalJson, evalIdx, attr_by_path, brokenAttrs, resolved, delete>>
    /\ UNCHANGED <<dryVars, buildVars, reportVars>>

NixEvalInit ==
    /\ evalJson \in EvalJsons
    /\ evalIdx = 0 /\ attr_by_path = <<>> /\ brokenAttrs = <<>>
    /\ resolved = <<>> /\ resPc = "start"
    /\ attr_json = FALSE /\ delete = TRUE
    /\ DryIdle /\ BuildIdle /\ ReportIdle

NixEvalNext ==
    \/ WriteInput
    \/ RunEval
    \/ LoadJson
    \/ EvalStep
    \/ EvalReturn
    \/ Finally

NixEvalSpec == NixEvalInit /\ [][NixEvalNext]_vars

\* ---- claim on nix_eval
\* C13: when the evaluation fails, by a non-zero exit of the backend or by
\* malformed output, the file of the requested names is still on disk once
\* the error has reached the caller; when it succeeds the file is removed.
C13_InputKeptOnFailure ==
    /\ resPc = "raised" => attr_json
    /\ resPc = "returned" => ~attr_json

\* ========================================================================
\* Build Invoker, dry-run planning: nix_build_dry
\* ========================================================================
MaxPlanLines == 4

\* A line is the sequence of its words (line.split()), a trailing colon
\* split off as a word of its own; `pat in line` is then a contiguous run of
\* words.  No word of the vocabulary is a proper prefix or suffix of a word
\* of a pattern, so the run of words decides Python's substring test.
L_BuiltPlural == <<"2", "derivations", "will", "be", "built", ":">>
L_BuiltSingular == <<"1", "derivation", "will", "be", "built", ":">>
L_FetchPlural == <<"2", "paths", "will", "be", "fetched", ":">>
L_FetchCountSingular == <<"1", "path", "will", "be", "fetched", ":">>
L_FetchThis == <<"this", "path", "will", "be", "fetched", ":">>
L_DontKnow == <<"don't", "know", "how", "to", "build", "these", "paths", ":">>
L_Garbage == <<"garbage">>
L_Blank == <<>>

\* words for which word.startswith("/nix/store") holds
StorePathWords == {"/nix/store/aaa", "/nix/store/bbb"}

PathLines == {<<w>> : w \in StorePathWords}

PlanVocabulary ==
    {L_BuiltPlural, L_BuiltSingular, L_FetchPlural, L_FetchCountSingular,
     L_FetchThis, L_DontKnow, L_Garbage, L_Blank} \cup PathLines

\* `pat in line`
Contains(line, pat) ==
    \E i \in 1..(Len(line) - Len(pat) + 1) : SubSeq(line, i, i + Len(pat) - 1) = pat

\* line.startswith("/nix/store")
StartsWithStore(line) == Len(line) > 0 /\ line[1] \in StorePathWords

\* mutant of HeaderOf: the singular "derivation will be built" branch is missing
HeaderOfNoSingularBuilt(line) ==
    IF Contains(line, <<"this", "path", "will", "be", "fetched">>) THEN "to_fetch"
    ELSE IF Contains(line, <<"paths", "will", "be", "fetched">>) THEN "to_fetch"
    ELSE IF Contains(line, <<"derivations", "will", "be", "built">>) THEN "to_build"
    ELSE IF Contains(line, <<"don't", "know", "how", "to", "build", "these", "paths">>)
         THEN "ignore"
    ELSE "none"

\* nix.py:207-216  which list a header line binds `cur` to ("none": no header)
HeaderOf(line) ==
    IF Contains(line, <<"this", "path", "will", "be", "fetched">>) THEN "to_fetch"
    ELSE IF Contains(line, <<"paths", "will", "be", "fetched">>) THEN "to_fetch"
    ELSE IF Contains(line, <<"derivations", "will", "be", "built">>) THEN "to_build"
    ELSE IF Contains(line, <<"derivation", "will", "be", "built">>) THEN "to_build"
    ELSE IF Contains(line, <<"don't", "know", "how", "to", "build", "these", "paths">>)
         THEN "ignore"
    ELSE "none"

\* a store-path line as the string the code appends
PathOf(line) == line[1]

\* one iteration of the loop nix.py:205-220
ParseLine ==
    /\ dryPc = "loop"
    /\ planIdx < Len(planLines)
    /\ LET line == planLines[planIdx + 1]
           h == HeaderOf(line)
       IN  IF h # "none"
           THEN /\ cur' = h
                /\ dryPc' = "loop"
                /\ UNCHANGED <<to_fetch, to_build, ignore>>
           ELSE IF StartsWithStore(line)
           THEN \* cur.append(line); an unbound cur is an UnboundLocalError
                /\ dryPc' = IF cur = "unbound" THEN "raised" ELSE "loop"
                /\ to_fetch' = IF cur = "to_fetch"
                               THEN Append(to_fetch, PathOf(line)) ELSE to_fetch
                /\ to_build' = IF cur = "to_build"
                               THEN Append(to_build, PathOf(line)) ELSE to_build
                /\ ignore' = IF cur = "ignore"
                             THEN Append(ignore, PathOf(line)) ELSE ignore
                /\ UNCHANGED cur
           ELSE \* line != "": RuntimeError("dry-run parsing failed")
                /\ dryPc' = IF line # L_Blank THEN "raised" ELSE "loop"
                /\ UNCHANGED <<cur, to_fetch, to_build, ignore>>
    /\ planIdx' = planIdx + 1
    /\ UNCHANGED planLines
    /\ UNCHANGED <<resolverVars, buildVars, reportVars>>

\* nix.py:222  return (to_build, to_fetch)
ParseReturn ==
    /\ dryPc = "loop"
    /\ planIdx = Len(planLines)
    /\ dryPc' = "done"
    /\ UNCHANGED <<planLines, planIdx, cur, to_fetch, to_build, ignore>>
    /\ UNCHANGED <<resolverVars, buildVars, reportVars>>

DryInit ==
    /\ planLines \in SeqsUpTo(PlanVocabulary, MaxPlanLines)
    /\ planIdx = 0 /\ cur = "unbound"
    /\ to_fetch = <<>> /\ to_build = <<>> /\ ignore = <<>>
    /\ dryPc = "loop"
    /\ ResolverIdle /\ BuildIdle /\ ReportIdle

DryNext == ParseLine \/ ParseReturn

DrySpec == DryInit /\ [][DryNext]_vars

\* ---- claims on the dry-run parser
\* the header forms of the claim, as the claim lists them
ClaimBuiltHeaders == {L_BuiltPlural, L_BuiltSingular}
ClaimFetchedHeaders == {L_FetchPlural, L_FetchCountSingular}
\* the fetched headers of the amended claim
AmendedFetchedHeaders == {L_FetchPlural, L_FetchThis}

\* a plan made of headers, each followed by store-path lines
PlanOf(plan, fetchedHeaders) ==
    /\ Len(plan) > 0
    /\ plan[1] \notin PathLines
    /\ \A i \in 1..Len(plan) :
          plan[i] \in ClaimBuiltHeaders \cup fetchedHeaders \cup {L_DontKnow} \cup PathLines

\* index of the most recently seen header before line i
LastHeader(plan, i) == CHOOSE k \in 1..i : plan[k] \notin PathLines /\
                          \A m \in (k+1)..i : plan[m] \in PathLines

RECURSIVE PathsUnder(_, _, _)
\* the paths of the first n lines standing under a header of `headers`, in input order
PathsUnder(plan, headers, n) ==
    IF n = 0 THEN <<>>
    ELSE LET rest == PathsUnder(plan, headers, n - 1)
         IN  IF plan[n] \in PathLines /\ plan[LastHeader(plan, n)] \in headers
             THEN Append(rest, plan[n][1])
             ELSE rest

DryFinished == dryPc \in {"done", "raised"}

\* C6 as stated: with the fetched header in count form ("1 path will be
\* fetched:") the parser returns exactly the paths under the built and the
\* fetched headers.
C6_Original ==
    (DryFinished /\ PlanOf(planLines, ClaimFetchedHeaders)) =>
        /\ dryPc = "done"
        /\ to_build = PathsUnder(planLines, ClaimBuiltHeaders, Len(planLines))
        /\ to_fetch = PathsUnder(planLines, ClaimFetchedHeaders, Len(planLines))

\* C6 amended: for a plan of "derivation(s) will be built" headers, "paths
\* will be fetched" headers and the singular "this path will be fetched"
\* header, each followed by store-path lines, to_build is exactly the paths
\* under the built headers and to_fetch exactly those under the fetched
\* headers, in input order; paths under "don't know how to build" are in
\* neither list.
C6_DryRunLists ==
    (DryFinished /\ PlanOf(planLines, AmendedFetchedHeaders)) =>
        /\ dryPc = "done"
        /\ to_build = PathsUnder(planLines, ClaimBuiltHeaders, Len(planLines))
        /\ to_fetch = PathsUnder(planLines, AmendedFetchedHeaders, Len(planLines))
        /\ ignore = PathsUnder(planLines, {L_DontKnow}, Len(planLines))

\* a finished plan with a built section and a fetched section
C6_Witness ==
    /\ dryPc = "done"
    /\ PlanOf(planLines, AmendedFetchedHeaders)
    /\ to_build # <<>>
    /\ to_fetch # <<>>

\* ========================================================================
\* Build Invoker, execution and diagnostic correlation: nix_build
\* ========================================================================
MaxAttrs == 2
MaxDiagLines == 2

\* A diagnostic word: the characters of `pre`, then `core`, then the
\* characters of `post`, so that lstrip/rstrip act on what they strip.
Word(s) == [pre |-> <<>>, core |-> s, post |-> <<>>]
Quoted(p) == [pre |-> <<"'">>, core |-> p, post |-> <<"'">>]
QuotedColon(p) == [pre |-> <<"'">>, core |-> p, post |-> <<"'", ":">>]

Words(ss) == [i \in 1..Len(ss) |-> Word(ss[i])]

\* recipe identifiers: two that Attrs may own and one no Attr owns
OwnedDrvs == {"/nix/store/d1.drv", "/nix/store/d2.drv"}
ForeignDrv == "/nix/store/d3.drv"
DrvPaths == OwnedDrvs \cup {ForeignDrv}

\* "build of '<drv>' timed out after 3600 seconds"
TimeoutLine(d) ==
    Words(<<"build", "of">>) \o <<Quoted(d)>> \o Words(<<"timed", "out", "after", "3600", "seconds">>)
\* "cannot build derivation '<drv>': 1 dependencies couldn't be built"
DependencyLine(d) ==
    Words(<<"cannot", "build", "derivation">>) \o <<QuotedColon(d)>>
        \o Words(<<"1", "dependencies", "couldn't", "be", "built">>)
\* "builder for '<drv>' failed"
FailureLine(d) == Words(<<"builder", "for">>) \o <<Quoted(d)>> \o Words(<<"failed">>)

DiagVocabulary ==
    {TimeoutLine("/nix/store/d1.drv"), TimeoutLine(ForeignDrv),
     DependencyLine("/nix/store/d1.drv"), DependencyLine("/nix/store/d2.drv"),
     FailureLine("/nix/store/d2.drv")}

\* s.lstrip(chars)
LStrip(w, chars) ==
    LET keep == {i \in 1..Len(w.pre) : w.pre[i] \notin chars}
    IN  IF keep = {} THEN [w EXCEPT !.pre = <<>>]
        ELSE [w EXCEPT !.pre = SubSeq(w.pre, CHOOSE i \in keep : \A j \in keep : i <= j,
                                     Len(w.pre))]

\* s.rstrip(chars)
RStrip(w, chars) ==
    LET keep == {i \in 1..Len(w.post) : w.post[i] \notin chars}
    IN  IF keep = {} THEN [w EXCEPT !.post = <<>>]
        ELSE [w EXCEPT !.post = SubSeq(w.post, 1, CHOOSE i \in keep : \A j \in keep : i >= j)]

\* next(item for item in line.split() if "/nix/store" in item)
StoreItem(line) ==
    line[CHOOSE i \in 1..Len(line) :
            /\ line[i].core \in DrvPaths
            /\ \A j \in 1..(i - 1) : line[j].core \notin DrvPaths]

\* a stripped token is the string drv exactly when nothing is left around it
IsPath(key, drv) == key.pre = <<>> /\ key.post = <<>> /\ key.core = drv

\* dict[key] = value on a dict kept as a sequence of [key, line]
DictSet(dict, key, line) ==
    IF \E i \in 1..Len(dict) : dict[i].key = key
    THEN [i \in 1..Len(dict) |->
             IF dict[i].key = key THEN [key |-> key, line |-> line] ELSE dict[i]]
    ELSE Append(dict, [key |-> key, line |-> line])

\* what the resolver and evalAttrs.nix hand to nix_build: two outputs of one
\* derivation share its drv_path
BuildProfiles ==
    {[broken |-> FALSE, blacklisted |-> FALSE, path |-> "/nix/store/p1", drv_path |-> "/nix/store/d1.drv"],
     [broken |-> FALSE, blacklisted |-> FALSE, path |-> "/nix/store/p2", drv_path |-> "/nix/store/d2.drv"],
     [broken |-> FALSE, blacklisted |-> FALSE, path |-> "/nix/store/p1-dev", drv_path |-> "/nix/store/d1.drv"],
     [broken |-> FALSE, blacklisted |-> TRUE, path |-> "/nix/store/p3", drv_path |-> "/nix/store/d1.drv"],
     [broken |-> TRUE, blacklisted |-> FALSE, path |-> None, drv_path |-> None]}

\* the resolver leaves one Attr per output path
DistinctPaths(ps) ==
    \A i, j \in 1..Len(ps) : (ps[i].path # None /\ ps[i].path = ps[j].path) => i = j

BuildNames == <<"pkgA", "pkgB", "pkgC", "pkgD", "pkgE">>

BuildAttrs(profiles) ==
    [i \in 1..Len(profiles) |->
        Attr(BuildNames[i], TRUE, profiles[i].broken, profiles[i].blacklisted, FALSE,
             profiles[i].path, profiles[i].drv_path)]

\* nix.py:231, 310-323  the pre-build stages may mark any Attrs skipped
\* (none with NIXPKGS_REVIEW_PRE_BUILD_FILTER unset)
PreBuildFilter ==
    /\ buildPc = "filter"
    /\ \E S \in SUBSET (1..Len(attrs)) :
          attrs' = [i \in 1..Len(attrs) |->
                      IF i \in S THEN [attrs[i] EXCEPT !.skipped = TRUE] ELSE attrs[i]]
    /\ buildPc' = "select"
    /\ UNCHANGED <<stderr, scanIdx, has_failed_dependencies, has_timeout, attrsBefore>>
    /\ UNCHANGED <<resolverVars, dryVars, reportVars>>

\* nix.py:232-235
Filtered(as) ==
    {i \in 1..Len(as) : ~(as[i].broken \/ as[i].blacklisted \/ as[i].skipped)}

\* nix.py:237-238  nothing selected: return attrs
ReturnEarly ==
    /\ buildPc = "select"
    /\ Filtered(attrs) = {}
    /\ buildPc' = "returned_early"
    /\ UNCHANGED <<attrs, stderr, scanIdx, has_failed_dependencies, has_timeout, attrsBefore>>
    /\ UNCHANGED <<resolverVars, dryVars, reportVars>>

\* nix.py:240-267  the build runs and leaves its diagnostics in stderr
RunBuild ==
    /\ buildPc = "select"
    /\ Filtered(attrs) # {}
    /\ stderr' \in SeqsUpTo(DiagVocabulary, MaxDiagLines)
    /\ attrsBefore' = attrs
    /\ buildPc' = "scan"
    /\ UNCHANGED <<attrs, scanIdx, has_failed_dependencies, has_timeout>>
    /\ UNCHANGED <<resolverVars, dryVars, reportVars>>

IsDependencyLine(line) == Contains(line, Words(<<"dependencies", "couldn't", "be", "built">>))
IsTimeoutLine(line) == Contains(line, Words(<<"timed", "out", "after">>))

\* nix.py:273-277
DependencyKey(line) == RStrip(LStrip(StoreItem(line), {"'"}), {":", "'"})
\* nix.py:279-283
TimeoutKey(line) == RStrip(LStrip(StoreItem(line), {"'"}), {"'"})

\* one iteration of the loop nix.py:271-284
ScanLine ==
    /\ buildPc = "scan"
    /\ scanIdx < Len(stderr)
    /\ LET line == stderr[scanIdx + 1]
       IN  /\ has_failed_dependencies' =
                 IF IsDependencyLine(line)
                 THEN Append(has_failed_dependencies, DependencyKey(line))
                 ELSE has_failed_dependencies
           /\ has_timeout' =
                 IF IsTimeoutLine(line)
                 THEN DictSet(has_timeout, TimeoutKey(line), line)
                 ELSE has_timeout
    /\ scanIdx' = scanIdx + 1
    /\ UNCHANGED <<attrs, stderr, attrsBefore, buildPc>>
    /\ UNCHANGED <<resolverVars, dryVars, reportVars>>

\* nix.py:286  {a.drv_path: a for a in attrs}: the last Attr with a drv_path
\* is the one the dict keeps (0: the key is absent)
DrvPathToAttr(as, key) ==
    LET owners == {i \in 1..Len(as) : IsPath(key, as[i].drv_path)}
    IN  IF owners = {} THEN 0 ELSE CHOOSE i \in owners : \A j \in owners : i >= j

RECURSIVE MarkTimeouts(_, _, _)
\* nix.py:287-291 over the first n keys of has_timeout
MarkTimeouts(as, dict, n) ==
    IF n = 0 THEN as
    ELSE LET prev == MarkTimeouts(as, dict, n - 1)
             k == DrvPathToAttr(prev, dict[n].key)
         IN  IF k = 0 THEN prev
             ELSE [prev EXCEPT ![k].build_err_msg = <<"line", dict[n].line>>,
                               ![k].timed_out = TRUE]

RECURSIVE MarkFailedDependencies(_, _, _, _)
\* nix.py:293-304 over the first n entries of has_failed_dependencies
MarkFailedDependencies(as, deps, anyTimeout, n) ==
    IF n = 0 THEN as
    ELSE LET prev == MarkFailedDependencies(as, deps, anyTimeout, n - 1)
             k == DrvPathToAttr(prev, deps[n])
         IN  IF k = 0 THEN prev
             ELSE [prev EXCEPT ![k].build_err_msg = <<"stderr">>,
                               ![k].timed_out = IF anyTimeout THEN TRUE ELSE @]

\* nix.py:286-304  the two marking loops
Correlate ==
    /\ buildPc = "scan"
    /\ scanIdx = Len(stderr)
    /\ attrs' = MarkFailedDependencies(
                    MarkTimeouts(attrs, has_timeout, Len(has_timeout)),
                    has_failed_dependencies, Len(has_timeout) > 0,
                    Len(has_failed_dependencies))
    /\ buildPc' = "correlated"
    /\ UNCHANGED <<stderr, scanIdx, has_failed_dependencies, has_timeout, attrsBefore>>
    /\ UNCHANGED <<resolverVars, dryVars, reportVars>>

\* nix.py:306-307, 326-341  the post-build stages (none with
\* NIXPKGS_REVIEW_CHECKS unset), then return attrs
Postprocess ==
    /\ buildPc = "correlated"
    /\ buildPc' = "done"
    /\ UNCHANGED <<attrs, stderr, scanIdx, has_failed_dependencies, has_timeout, attrsBefore>>
    /\ UNCHANGED <<resolverVars, dryVars, reportVars>>

BuildInit ==
    /\ \E ps \in SeqsUpTo(BuildProfiles, MaxAttrs) :
          /\ DistinctPaths(ps)
          /\ attrs = BuildAttrs(ps)
    /\ stderr = <<>> /\ scanIdx = 0
    /\ has_failed_dependencies = <<>> /\ has_timeout = <<>>
    /\ attrsBefore = <<>> /\ buildPc = "filter"
    /\ ResolverIdle /\ DryIdle /\ ReportIdle

BuildNext ==
    \/ PreBuildFilter
    \/ ReturnEarly
    \/ RunBuild
    \/ ScanLine
    \/ Correlate
    \/ Postprocess

BuildSpec == BuildInit /\ [][BuildNext]_vars

\* ---- claims on the diagnostic correlation
Correlated == buildPc \in {"correlated", "done"}

\* the store-path token of a line, quote punctuation stripped
QuoteStripped(line) == RStrip(LStrip(StoreItem(line), {"'"}), {"'"})

\* C7: for every "timed out after" line with store-path token P, every Attr
\* whose drv_path is P has timed_out = true and a build_err_msg, whatever
\* the number of Attrs and their drv_paths.
C7_TimeoutMarksEveryOwner ==
    Correlated =>
        \A l \in 1..Len(stderr) : IsTimeoutLine(stderr[l]) =>
            \A i \in 1..Len(attrs) :
                IsPath(QuoteStripped(stderr[l]), attrs[i].drv_path) =>
                    attrs[i].timed_out /\ attrs[i].build_err_msg # NoMsg

NamedInDependencyLine(a) ==
    \E l \in 1..Len(stderr) :
        IsDependencyLine(stderr[l]) /\ IsPath(DependencyKey(stderr[l]), a.drv_path)
NamedInTimeoutLine(a) ==
    \E l \in 1..Len(stderr) :
        IsTimeoutLine(stderr[l]) /\ IsPath(QuoteStripped(stderr[l]), a.drv_path)
AnyTimeoutLine == \E l \in 1..Len(stderr) : IsTimeoutLine(stderr[l])

\* C8: an Attr whose drv_path is named in a "dependencies couldn't be built"
\* line and in no timeout line ends with timed_out = true exactly when the
\* diagnostics hold at least one "timed out after" line.
C8_DependencyTimeoutHeuristic ==
    Correlated =>
        \A i \in 1..Len(attrs) :
            (NamedInDependencyLine(attrs[i]) /\ ~NamedInTimeoutLine(attrs[i])) =>
                (attrs[i].timed_out <=> AnyTimeoutLine)

\* C14: Attrs not selected for building (broken, blacklisted or skipped
\* after the pre-build filter) come out of the build and the diagnostic
\* correlation with every field as it was before, whatever the diagnostics
\* say, lines naming their drv_path included.
C14_UnselectedUntouched ==
    Correlated =>
        \A i \in 1..Len(attrs) :
            i \notin Filtered(attrsBefore) => attrs[i] = attrsBefore[i]

\* ---- claims on the stages of nix_build
\* nix_build has handed the Attr list back to its caller
Returned == buildPc \in {"done", "returned_early"}

\* C12: in every run over a non-empty set of names, whatever the broken,
\* blacklisted and skipped flags are, the stages come in the order resolver,
\* pre-build pipeline, build, post-build pipeline: the pre-build pipeline
\* runs once on the resolver's list before the build, and the list is
\* returned only by the post-build pipeline, which runs once after the build.
C12_StageOrder ==
    [][Len(attrs) > 0 =>
          /\ buildPc' = "select" => buildPc = "filter"
          /\ buildPc' = "scan" => buildPc \in {"select", "scan"}
          /\ buildPc' = "correlated" => buildPc = "scan"
          /\ Returned' => buildPc = "correlated" /\ buildPc' = "done"]_vars

\* ========================================================================
\* CI Cross-Referencer and Report Compiler
\* ========================================================================
MaxTargets == 2
MaxClassify == 1

\* hydracheck.py:45  ThreadPoolExecutor(max_workers=10)
max_workers == 10

TestNames == <<"nixosTests.a", "nixosTests.b", "nixosTests.c", "nixosTests.d", "nixosTests.e">>

\* name.startswith("nixosTests.")
IsTestName(name) == name \in Range(TestNames)

OutPath(i) == "/nix/store/" \o BuildNames[i]

\* every combination of the fields the classification reads; store_ok is the
\* answer of nix-store --verify-path, asked only for an Attr with a path
AllProfiles ==
    {p \in [broken : BOOLEAN, blacklisted : BOOLEAN, skipped : BOOLEAN,
            timed_out : BOOLEAN, exists : BOOLEAN, test : BOOLEAN,
            has_path : BOOLEAN, store_ok : BOOLEAN] :
        p.store_ok => p.has_path}

PlainProfile(has_path, store_ok, broken) ==
    [broken |-> broken, blacklisted |-> FALSE, skipped |-> FALSE, timed_out |-> FALSE,
     exists |-> TRUE, test |-> FALSE, has_path |-> has_path, store_ok |-> store_ok]

\* a failed build without and with an output path, a built package, a broken one
CommonProfiles ==
    {PlainProfile(FALSE, FALSE, FALSE), PlainProfile(TRUE, FALSE, FALSE),
     PlainProfile(TRUE, TRUE, FALSE), PlainProfile(FALSE, FALSE, TRUE)}

\* the Target lists handed to Report: short lists of arbitrary Attrs and
\* longer lists of common ones
TargetProfileLists ==
    SeqsUpTo(AllProfiles, MaxClassify) \cup SeqsUpTo(CommonProfiles, MaxTargets)

ReportAttrs(ps) ==
    [i \in 1..Len(ps) |->
        [Attr(IF ps[i].test THEN TestNames[i] ELSE BuildNames[i],
              ps[i].exists, ps[i].broken, ps[i].blacklisted, ps[i].skipped,
              IF ps[i].has_path THEN OutPath(i) ELSE None,
              IF ps[i].has_path THEN OutPath(i) \o ".drv" ELSE None)
         EXCEPT !.timed_out = ps[i].timed_out]]

\* ---- the CI status provider's answers
Row(tds, all_link, status) == [tds |-> tds, all_link |-> all_link, status |-> status]
Page(tbody, alert, rows) == [tbody |-> tbody, alert |-> alert, rows |-> rows]

\* a job page: the link row to /all, then the latest build
PageSucceeded == Page(TRUE, None, <<Row(1, TRUE, None), Row(5, FALSE, "Succeeded")>>)
PageFailed == Page(TRUE, None, <<Row(5, FALSE, "Failed")>>)
\* no result table, an alert box
PageAlert == Page(FALSE, "job not found", <<>>)
\* a result table without rows
PageEmptyTable == Page(TRUE, None, <<>>)

UrlError == [kind |-> "URLError", status |-> 0, body |-> PageEmptyTable]
HttpError == [kind |-> "HTTPError", status |-> 404, body |-> PageEmptyTable]
Http(status, page) == [kind |-> "response", status |-> status, body |-> page]

Responses ==
    {UrlError, HttpError, Http(204, PageSucceeded), Http(200, PageSucceeded),
     Http(200, PageFailed), Http(200, PageAlert), Http(200, PageEmptyTable)}

NoResponse == [kind |-> "unasked", status |-> 0, body |-> PageEmptyTable]

Raised == [raised |-> TRUE, success |-> FALSE, status |-> None]
Status(success, status) == [raised |-> FALSE, success |-> success, status |-> status]

RECURSIVE ParseRows(_, _)
\* hydracheck.py:77-102  the loop over the rows from row n on
ParseRows(rows, n) ==
    IF n > Len(rows) THEN Raised                       \* raise RuntimeError()
    ELSE IF rows[n].tds = 5
         THEN Status(rows[n].status = "Succeeded", rows[n].status)
         ELSE IF rows[n].all_link THEN ParseRows(rows, n + 1)
              ELSE Raised                               \* the ValueError is re-raised

\* hydracheck.py:66-102
ParseBuildHtml(page) ==
    IF ~page.tbody
    THEN IF page.alert = None THEN Raised               \* None.text: AttributeError
         ELSE Status(FALSE, IF page.alert = ""
                            THEN "Unknown Hydra Error" ELSE page.alert)
    ELSE ParseRows(page.rows, 1)

NoData == [has |-> FALSE, name |-> None, body |-> PageEmptyTable]
Data(name, body) == [has |-> TRUE, name |-> name, body |-> body]

\* hydracheck.py:105-115 with 49-54: what is appended to response_bodies for
\* a request that met response r
FutureData(name, r) ==
    IF r.kind = "URLError" THEN NoData                  \* future.result() raises
    ELSE IF r.kind = "HTTPError" THEN NoData            \* caught in _fetch_data
    ELSE IF r.status # 200 THEN NoData
    ELSE Data(name, r.body)

\* ---- Report.__init__, the classification loop
\* nix.py:37-51
WasBuild(a, valid) ==
    IF a.path = None THEN FALSE
    ELSE IF a.skipped THEN FALSE
    ELSE IF a.path_verified # None THEN a.path_verified = "True"
    ELSE a.path \in valid

\* mutant of BucketOf: existence is tested before broken
BucketOfExistsFirst(a, valid) ==
    IF ~a.exists THEN "non_existant"
    ELSE IF a.broken THEN "broken"
    ELSE IF a.blacklisted THEN "blacklisted"
    ELSE IF a.skipped THEN "skipped"
    ELSE IF a.timed_out THEN "timed_out"
    ELSE IF IsTestName(a.name) THEN "tests"
    ELSE IF ~WasBuild(a, valid) THEN "failed"
    ELSE "built"

\* report.py:103-118
BucketOf(a, valid) ==
    IF a.broken THEN "broken"
    ELSE IF a.blacklisted THEN "blacklisted"
    ELSE IF a.skipped THEN "skipped"
    ELSE IF a.timed_out THEN "timed_out"
    ELSE IF ~a.exists THEN "non_existant"
    ELSE IF IsTestName(a.name) THEN "tests"
    ELSE IF ~WasBuild(a, valid) THEN "failed"
    ELSE "built"

RECURSIVE SelectIdx(_, _, _, _)
\* the Attrs (as indices into as) among the first n that go to bucket b, in list order
SelectIdx(as, valid, b, n) ==
    IF n = 0 THEN <<>>
    ELSE LET rest == SelectIdx(as, valid, b, n - 1)
         IN  IF BucketOf(as[n], valid) = b THEN Append(rest, n) ELSE rest

\* was_build() caches the store's answer in _path_verified when the chain
\* reaches it (report.py:115) and it gets to nix.py:47-50
Verified(a, valid) ==
    IF /\ BucketOf(a, valid) \in {"failed", "built"}
       /\ a.path # None /\ ~a.skipped /\ a.path_verified = None
    THEN [a EXCEPT !.path_verified = IF a.path \in valid THEN "True" ELSE "False"]
    ELSE a

\* report.py:90-118  a bucket holds Attrs, here their indices into rAttrs
Classify ==
    /\ repPc = "classify"
    /\ buckets' = [b \in DOMAIN EmptyBuckets |->
                     IF b \in {"failed_new", "failed_existing"} THEN <<>>
                     ELSE SelectIdx(rAttrs, storeValid, b, Len(rAttrs))]
    /\ failed' = SelectIdx(rAttrs, storeValid, "failed", Len(rAttrs))
    /\ rAttrs' = [i \in 1..Len(rAttrs) |-> Verified(rAttrs[i], storeValid)]
    /\ repPc' = "fetch"
    /\ UNCHANGED <<storeValid, responses, submitted, running, finished, collected,
                   response_bodies, reports>>
    /\ UNCHANGED <<resolverVars, dryVars, buildVars, report_md>>

\* ---- fetch_hydra_build_status; a future is its index into failed
\* hydracheck.py:46  executor.submit for the next attr (as_completed drains
\* the generator before it yields anything)
Submit ==
    /\ repPc = "fetch"
    /\ submitted < Len(failed)
    /\ submitted' = submitted + 1
    /\ UNCHANGED <<rAttrs, storeValid, responses, buckets, failed, running, finished,
                   collected, response_bodies, reports, repPc>>
    /\ UNCHANGED <<resolverVars, dryVars, buildVars, report_md>>

Queued == {f \in 1..submitted : f \notin running /\ f \notin finished}

\* mutant of StartFetch: a worker thread for every work item, the pool is unbounded
StartFetchUnbounded ==
    /\ repPc = "fetch"
    /\ Queued # {}
    /\ running' = running \cup {CHOOSE f \in Queued : \A g \in Queued : f <= g}
    /\ UNCHANGED <<rAttrs, storeValid, responses, buckets, failed, submitted, finished,
                   collected, response_bodies, reports, repPc>>
    /\ UNCHANGED <<resolverVars, dryVars, buildVars, report_md>>

\* a worker takes the oldest queued work item; the pool has max_workers workers
StartFetch ==
    /\ repPc = "fetch"
    /\ Queued # {}
    /\ Cardinality(running) < max_workers
    /\ running' = running \cup {CHOOSE f \in Queued : \A g \in Queued : f <= g}
    /\ UNCHANGED <<rAttrs, storeValid, responses, buckets, failed, submitted, finished,
                   collected, response_bodies, reports, repPc>>
    /\ UNCHANGED <<resolverVars, dryVars, buildVars, report_md>>

\* hydracheck.py:105-115  _fetch_data meets one of the provider's answers and
\* the future completes
FinishWith(answers) ==
    /\ repPc = "fetch"
    /\ \E f \in running, r \in answers :
          /\ responses' = [responses EXCEPT ![f] = r]
          /\ running' = running \ {f}
          /\ finished' = finished \cup {f}
    /\ UNCHANGED <<rAttrs, storeValid, buckets, failed, submitted, collected,
                   response_bodies, reports, repPc>>
    /\ UNCHANGED <<resolverVars, dryVars, buildVars, report_md>>

FinishFetch == FinishWith(Responses)

\* hydracheck.py:48-54  as_completed yields a completed future
Collect ==
    /\ repPc = "fetch"
    /\ submitted = Len(failed)
    /\ \E f \in finished \ collected :
          /\ response_bodies' =
                Append(response_bodies, FutureData(rAttrs[failed[f]].name, responses[f]))
          /\ collected' = collected \cup {f}
    /\ UNCHANGED <<rAttrs, storeValid, responses, buckets, failed, submitted, running,
                   finished, reports, repPc>>
    /\ UNCHANGED <<resolverVars, dryVars, buildVars, report_md>>

\* parsed_responses[name] = report on a dict kept as a sequence of [name, report]
ReportSet(dict, name, report) ==
    IF \E i \in 1..Len(dict) : dict[i].name = name
    THEN [i \in 1..Len(dict) |->
             IF dict[i].name = name THEN [name |-> name, report |-> report] ELSE dict[i]]
    ELSE Append(dict, [name |-> name, report |-> report])

RECURSIVE ParseBodies(_, _)
\* hydracheck.py:56-61 over the first n response bodies
ParseBodies(bodies, n) ==
    IF n = 0 THEN <<>>
    ELSE LET prev == ParseBodies(bodies, n - 1)
         IN  IF ~bodies[n].has THEN prev
             ELSE ReportSet(prev, bodies[n].name, ParseBuildHtml(bodies[n].body))

\* some _parse_build_html call of the loop raises
ParseRaises(bodies) ==
    \E n \in 1..Len(bodies) : bodies[n].has /\ ParseBuildHtml(bodies[n].body).raised

\* hydracheck.py:56-63  the parse loop: it returns the dict, or an exception
\* of _parse_build_html leaves fetch_hydra_build_status and Report.__init__
ParseResponses ==
    /\ repPc = "fetch"
    /\ submitted = Len(failed)
    /\ collected = 1..Len(failed)
    /\ IF ParseRaises(response_bodies)
       THEN /\ repPc' = "raised"
            /\ UNCHANGED reports
       ELSE /\ repPc' = "partition"
            /\ reports' = ParseBodies(response_bodies, Len(response_bodies))
    /\ UNCHANGED <<rAttrs, storeValid, responses, buckets, failed, submitted, running,
                   finished, collected, response_bodies>>
    /\ UNCHANGED <<resolverVars, dryVars, buildVars, report_md>>

\* ---- Report.get_hydra_build_status
\* mutant of PreExisting: the test on success is inverted
PreExistingInverted(report) == report.success

\* report.py:142  if not report["success"]
PreExisting(report) == ~report.success

\* report.py:140  name2attr[name]: the last Attr of failed with that name
NameToAttr(as, fl, name) ==
    fl[CHOOSE k \in 1..Len(fl) :
          /\ as[fl[k]].name = name
          /\ \A m \in 1..Len(fl) : as[fl[m]].name = name => m <= k]

RECURSIVE Existing(_, _, _, _)
\* report.py:141-143 over the first n reports
Existing(as, fl, reps, n) ==
    IF n = 0 THEN <<>>
    ELSE LET prev == Existing(as, fl, reps, n - 1)
         IN  IF PreExisting(reps[n].report)
             THEN Append(prev, NameToAttr(as, fl, reps[n].name))
             ELSE prev

\* mutant of Remaining: nothing is popped from name2attr
RemainingAll(fl, popped) == fl

\* report.py:144-145  what is left in name2attr after the pops, in dict order
Remaining(fl, popped) ==
    SelectSeq(fl, LAMBDA i : i \notin Range(popped))

\* report.py:120, 136-146
Partition ==
    /\ repPc = "partition"
    /\ LET existing == Existing(rAttrs, failed, reports, Len(reports))
       IN  buckets' = [buckets EXCEPT !.failed_existing = existing,
                                      !.failed_new = Remaining(failed, existing)]
    /\ repPc' = "done"
    /\ UNCHANGED <<rAttrs, storeValid, responses, failed, submitted, running, finished,
                   collected, response_bodies, reports>>
    /\ UNCHANGED <<resolverVars, dryVars, buildVars, report_md>>

\* ---- Report.markdown
\* report.py:32-57  html_pkgs_section over the bucket `of`: nothing for an
\* empty list, else one <details> section; with show > 0 the item list is
\* cut after `show` entries by an "..." item
html_pkgs_section(of, packages, msg, what, show) ==
    IF Len(packages) = 0 THEN <<>>
    ELSE <<[of      |-> of,
            summary |-> <<Len(packages),
                          what \o (IF Len(packages) > 1 THEN "s" ELSE ""), msg>>,
            items   |-> IF show > 0 /\ Len(packages) > show
                        THEN [i \in 1..show |-> rAttrs[packages[i]].name] \o <<"...">>
                        ELSE [i \in 1..Len(packages) |-> rAttrs[packages[i]].name]]>>

\* report.py:159-182  the sections of the document in the order written (the
\* headline precedes them; no Attr of the model carries a check report, so
\* html_check_reports adds nothing)
markdown ==
    html_pkgs_section("broken", buckets.broken, "marked as broken and skipped", "package", 10)
    \o html_pkgs_section("non_existant", buckets.non_existant,
          "present in ofBorgs evaluation, but not found in the checkout", "package", -1)
    \o html_pkgs_section("failed_new", buckets.failed_new, "failed to build (new)", "package", -1)
    \o html_pkgs_section("failed_existing", buckets.failed_existing,
          "failed to build (existing failures)", "package", -1)
    \o html_pkgs_section("skipped", buckets.skipped, "skipped due to time constraints",
          "package", 10)
    \o html_pkgs_section("timed_out", buckets.timed_out, "timed out", "package", -1)
    \o html_pkgs_section("tests", buckets.tests, "built", "test", -1)
    \o html_pkgs_section("built", buckets.built, "built", "package", -1)

\* report.py:150-152  Report.write puts markdown() into report.md
Write ==
    /\ repPc = "done"
    /\ report_md' = markdown
    /\ repPc' = "written"
    /\ UNCHANGED <<rAttrs, storeValid, responses, buckets, failed, submitted, running,
                   finished, collected, response_bodies, reports>>
    /\ UNCHANGED <<resolverVars, dryVars, buildVars>>

ReportInit ==
    /\ \E ps \in TargetProfileLists :
          /\ rAttrs = ReportAttrs(ps)
          /\ storeValid = {OutPath(i) : i \in {k \in 1..Len(ps) : ps[k].store_ok}}
          /\ responses = [i \in 1..Len(ps) |-> NoResponse]
    /\ buckets = EmptyBuckets /\ failed = <<>>
    /\ submitted = 0 /\ running = {} /\ finished = {} /\ collected = {}
    /\ response_bodies = <<>> /\ reports = <<>>
    /\ repPc = "classify" /\ report_md = <<>>
    /\ ResolverIdle /\ DryIdle /\ BuildIdle

ReportNext ==
    \/ Classify
    \/ Submit
    \/ StartFetch
    \/ FinishFetch
    \/ Collect
    \/ ParseResponses
    \/ Partition
    \/ Write

ReportSpec == ReportInit /\ [][ReportNext]_vars

\* ---- claims on the Report
Constructed == repPc = "done"

BucketNames ==
    <<"broken", "blacklisted", "skipped", "timed_out", "non_existant", "tests",
      "failed_new", "failed_existing", "built">>

\* the places (bucket, position) at which Attr i stands
Places(i) ==
    {pl \in Range(BucketNames) \X (1..Len(rAttrs)) :
        pl[2] <= Len(buckets[pl[1]]) /\ buckets[pl[1]][pl[2]] = i}

\* C1: in a constructed Report every Attr of the list stands in exactly one
\* of the nine buckets, once.
C1_ExactlyOneBucket ==
    Constructed => \A i \in 1..Len(rAttrs) : Cardinality(Places(i)) = 1

\* two Attrs failed locally, one an existing failure and one a new one
C1_Witness ==
    /\ Constructed
    /\ Len(buckets.failed_new) = 1
    /\ Len(buckets.failed_existing) = 1

\* the output path is intact storage; no output path is never built
WasBuiltFact(i) == rAttrs[i].path # None /\ rAttrs[i].path \in storeValid

\* the rules of the priority chain, in order
Rule(i) ==
    <<rAttrs[i].broken, rAttrs[i].blacklisted, rAttrs[i].skipped, rAttrs[i].timed_out,
      ~rAttrs[i].exists, IsTestName(rAttrs[i].name), ~WasBuiltFact(i), TRUE>>

FirstMatch(i) == CHOOSE k \in 1..8 : Rule(i)[k] /\ \A m \in 1..(k - 1) : ~Rule(i)[m]

\* the buckets rule k leads to
RuleBuckets ==
    <<{"broken"}, {"blacklisted"}, {"skipped"}, {"timed_out"}, {"non_existant"},
      {"tests"}, {"failed_new", "failed_existing"}, {"built"}>>

\* C2: every Attr stands in the bucket of the first rule it matches in the
\* order broken, blacklisted, skipped, timed_out, not exists, test name,
\* not built, else built.
C2_FirstMatchWins ==
    Constructed =>
        \A i \in 1..Len(rAttrs) : \E b \in RuleBuckets[FirstMatch(i)] :
            i \in Range(buckets[b])

\* an Attr that is broken and does not exist is reported as broken
C2_Witness ==
    /\ Constructed
    /\ \E i \in 1..Len(rAttrs) :
          /\ rAttrs[i].broken /\ ~rAttrs[i].exists
          /\ i \in Range(buckets.broken)

\* the failed Attrs: the futures f with their Attr failed[f]
HasUpstreamData(f) ==
    /\ responses[f].kind = "response"
    /\ responses[f].status = 200
    /\ ~ParseBuildHtml(responses[f].body).raised

UpstreamSuccess(f) == ParseBuildHtml(responses[f].body).success

\* C3: a failed Attr is in failed_existing exactly when upstream data was
\* obtained for it and shows non-success, and in failed_new exactly when no
\* upstream data was obtained for it or the data shows success.
C3_Partition ==
    Constructed =>
        \A f \in 1..Len(failed) :
            /\ failed[f] \in Range(buckets.failed_existing)
                  <=> (HasUpstreamData(f) /\ ~UpstreamSuccess(f))
            /\ failed[f] \in Range(buckets.failed_new)
                  <=> (~HasUpstreamData(f) \/ UpstreamSuccess(f))

\* one failed Attr without upstream data, one failing upstream too
C3_Witness ==
    /\ Constructed
    /\ \E f, g \in 1..Len(failed) :
          /\ ~HasUpstreamData(f) /\ failed[f] \in Range(buckets.failed_new)
          /\ HasUpstreamData(g) /\ ~UpstreamSuccess(g)
          /\ failed[g] \in Range(buckets.failed_existing)

\* a query that failed: network error, non-200 answer or malformed page
QueryFailed(f) ==
    \/ responses[f].kind \in {"URLError", "HTTPError"}
    \/ responses[f].status # 200
    \/ ParseBuildHtml(responses[f].body).raised

AllAnswered == repPc \in {"partition", "done", "raised"}

ReportFor(name) == {reports[k].report : k \in {m \in 1..Len(reports) : reports[m].name = name}}

\* C9: a failed query never aborts the batch: the fetch returns, the target
\* of the failed query has no entry in the result, and every other target
\* has the entry its own answer gives.
C9_FailureIsolated ==
    AllAnswered =>
        /\ repPc # "raised"
        /\ \A f \in 1..Len(failed) :
              ReportFor(rAttrs[failed[f]].name) =
                 IF QueryFailed(f) THEN {} ELSE {ParseBuildHtml(responses[f].body)}

\* the partition when the requests complete in the order of submission
InOrderExisting ==
    SelectSeq(failed, LAMBDA i :
        \E f \in 1..Len(failed) :
            failed[f] = i /\ HasUpstreamData(f) /\ ~UpstreamSuccess(f))
InOrderNew ==
    SelectSeq(failed, LAMBDA i :
        \E f \in 1..Len(failed) :
            failed[f] = i /\ (~HasUpstreamData(f) \/ UpstreamSuccess(f)))

\* C10: for fixed Attrs and fixed upstream answers failed_new and
\* failed_existing have the same elements in the same order whatever the
\* order in which the requests complete.
C10_CompletionOrderIrrelevant ==
    Constructed =>
        /\ buckets.failed_new = InOrderNew
        /\ buckets.failed_existing = InOrderExisting

\* C15: the written Markdown report has a collapsible section for a bucket
\* if and only if that bucket holds at least one Attr, for each of the nine
\* buckets.
C15_SectionPerNonEmptyBucket ==
    repPc = "written" =>
        \A b \in Range(BucketNames) :
            (\E k \in 1..Len(report_md) : report_md[k].of = b) <=> (Len(buckets[b]) > 0)

\* ========================================================================
\* CI Cross-Referencer, the worker pool under many targets
\* ========================================================================
MaxPool == 11

\* n locally failed Attrs (no output path), as Report hands them to the fetch
PoolAttrs(n) ==
    [i \in 1..n |-> Attr("pkg" \o ToString(i), TRUE, FALSE, FALSE, FALSE, None, None)]

\* the provider is unreachable: every urlopen ends in a URLError, at the
\* latest after its timeout of 20 s (hydracheck.py:110)
FinishUnreachable == FinishWith({UrlError})

PoolInit ==
    /\ \E n \in 0..MaxPool :
          /\ rAttrs = PoolAttrs(n)
          /\ responses = [i \in 1..n |-> NoResponse]
    /\ storeValid = {}
    /\ buckets = EmptyBuckets /\ failed = <<>>
    /\ submitted = 0 /\ running = {} /\ finished = {} /\ collected = {}
    /\ response_bodies = <<>> /\ reports = <<>>
    /\ repPc = "classify" /\ report_md = <<>>
    /\ ResolverIdle /\ DryIdle /\ BuildIdle

PoolNext ==
    \/ Classify
    \/ Submit
    \/ StartFetch
    \/ FinishUnreachable
    \/ Collect
    \/ ParseResponses
    \/ Partition

\* the main thread and the worker threads keep running, and every request
\* ends, at the latest by its timeout: the fetch never stops while a step
\* of it is possible
PoolFairness == WF_vars(PoolNext)

PoolSpec == PoolInit /\ [][PoolNext]_vars /\ PoolFairness

\* ---- claim on the worker pool
FetchReturned == repPc \in {"partition", "done", "raised"}

Futures == 1..Len(failed)

\* requests in flight are bounded, a request is in one stage at a time, and
\* the fetch has returned only with every request issued and completed
PoolSafe ==
    /\ Cardinality(running) <= max_workers
    /\ running \cap finished = {}
    /\ (running \cup finished) \subseteq 1..submitted
    /\ collected \subseteq finished
    /\ FetchReturned =>
          /\ finished = Futures /\ running = {}
          /\ Len(response_bodies) = Len(failed)

\* an issued request is not issued again
IssuedOnce ==
    [][\A f \in Futures :
          (f \in running \cup finished) => ~(f \in running' /\ f \notin running)]_vars

\* the number of steps the fetch has taken: every step of it adds one
FetchProgress ==
    (IF repPc = "classify" THEN 0 ELSE 1) + submitted + Cardinality(running)
       + 2 * Cardinality(finished) + Cardinality(collected)
       + (IF FetchReturned THEN 1 ELSE 0) + (IF repPc = "done" THEN 1 ELSE 0)

\* the fetch terminates: until it has returned a step of it is possible, and
\* every step increases FetchProgress, which is bounded by the number of
\* targets; with PoolFairness every behaviour therefore reaches the return
FetchTerminates ==
    /\ [](~FetchReturned => ENABLED PoolNext)
    /\ [][FetchProgress' = FetchProgress + 1]_vars
    /\ [](FetchProgress <= 5 * Len(rAttrs) + 3)

\* C11: at most max_workers = 10 requests are in flight at any moment, every
\* target's request is eventually issued, exactly once, and the fetch
\* returns only after all of them have completed.
C11_BoundedPool ==
    /\ []PoolSafe
    /\ IssuedOnce
    /\ FetchTerminates
    /\ [](FetchReturned => finished = 1..Len(rAttrs))

\* more targets than workers: max_workers requests in flight, one waiting
C11_Witness ==
    /\ Len(failed) > max_workers
    /\ Cardinality(running) = max_workers
    /\ Queued # {}

\* ========================================================================
\* The whole model: a behaviour runs one component on its inputs
\* ========================================================================
Init == ResolverInit \/ NixEvalInit \/ DryInit \/ BuildInit \/ ReportInit \/ PoolInit

Next == ResolverNext \/ NixEvalNext \/ DryNext \/ BuildNext \/ ReportNext \/ PoolNext

Spec == Init /\ [][Next]_vars
=============================================================================
